---------------------------- MODULE Spec2Model ----------------------------
(***************************************************************************)
(* Model of the estimation engine of app.py (HouseBuild-Estimator):        *)
(* the fixture resolver find_match, the BOQ builder build_boq, the         *)
(* Projection page's phase totals and cost rollup, the Affordability       *)
(* page's funding schedule and cumulative curve, the two store files, the  *)
(* session's project store, the Inputs page's template editor and reset,   *)
(* and the navigation between the pages with the cached last projection.   *)
(*                                                                         *)
(* Representation.                                                         *)
(*  - An item name or fixture label (a Python str that the code lower-     *)
(*    cases, searches and concatenates) is the sequence of its code        *)
(*    points.  Units, phases and room names are only compared for          *)
(*    equality and are TLA+ strings.                                       *)
(*  - A Python float is an exact fixed-point number: the integer held is   *)
(*    the value times the scale of its kind (ConsScale, QualScale,         *)
(*    LocScale and their products), so sums and products are exact and     *)
(*    float rounding is not modelled.                                      *)
(*  - A catalog cell of the price / consumption_per_m2 columns is tagged   *)
(*    [kind, val]: kind "num" (a number) or "text" (anything               *)
(*    pd.to_numeric cannot parse).                                         *)
(***************************************************************************)
EXTENDS Integers, Sequences, FiniteSets, TLC

VARIABLES
    pc,                  \* position: "inputs", "matched", "built", "rolled"
    materials_df,        \* the materials catalog: a sequence of rows
    room_templates,      \* room -> [area_m2, fixtures: label -> quantity]
    counts,              \* room -> count
    quality_multiplier,  \* in 1/QualScale
    location_multiplier, \* in 1/LocScale
    key,                 \* the fixture label handed to find_match
    matched,             \* what find_match returned
    boq,                 \* the rows build_boq returned
    phase_totals,        \* Projection page: phase_totals
    summary              \* Projection page: base_total .. grand_total

\* Affordability page
VARIABLES
    phase_tot,           \* phase_tot: (phase, cost) in first-seen order
    phase_order,         \* the build order chosen in the multiselect
    one_time,            \* one-time investment
    monthly_savings,     \* monthly savings
    inflation_pct,       \* annual inflation (%)
    remaining_upfront,   \* loop variable of the schedule loop
    cum_month,           \* loop variable of the schedule loop
    results,             \* the funding entries appended so far
    upfront_trace,       \* the values remaining_upfront has taken
    curve,               \* df_cum: Month, CumulativeSavings, CumulativeRequired
    final_months         \* res_df["end"].iloc[-1]

afford_vars == <<phase_tot, phase_order, one_time, monthly_savings,
                 inflation_pct, remaining_upfront, cum_month, results,
                 upfront_trace, curve, final_months>>

boq_vars == <<pc, materials_df, room_templates, counts, quality_multiplier,
              location_multiplier, key, matched, boq, phase_totals, summary>>

\* the session's project store and the two store files
VARIABLES
    projects,            \* st.session_state["projects"]: name -> project
    projects_file,       \* projects_db.json
    materials_file,      \* materials_db.json
    saved_snapshots,     \* name -> the project's values when it was saved
    sel_proj,            \* Projection page: the project selected
    interactions         \* the number of reruns the user has caused

store_vars == <<projects, projects_file, materials_file, saved_snapshots,
                sel_proj, interactions>>

\* the page shown, the navigation flags and the cached last projection
VARIABLES
    page,                    \* st.session_state["page"]
    go_to_affordability,     \* st.session_state["go_to_affordability"]
    projection_ran,          \* st.session_state["projection_ran"]
    last_projection_counts,  \* st.session_state["last_projection_counts"]
    last_projection_qmult,   \* st.session_state["last_projection_qmult"]
    last_projection_lmult,   \* st.session_state["last_projection_lmult"]
    last_projection_boq,     \* st.session_state["last_projection_boq"]
    boq_df,                  \* Affordability page: the BOQ it schedules
    info                     \* Affordability page: the line under the header

nav_vars == <<page, go_to_affordability, projection_ran,
              last_projection_counts, last_projection_qmult,
              last_projection_lmult, last_projection_boq, boq_df, info>>

\* the template editor of the Inputs page and the built-in templates
VARIABLES
    editor_widgets,      \* the area_<room> and fix_<room>_<fk> widget values
    builtin_templates,   \* DEFAULT_ROOM_TEMPLATES of the run, at its end
    template_run         \* room -> the run whose DEFAULT_ROOM_TEMPLATES the
                         \* session's dicts for the room come from

editor_vars == <<editor_widgets, builtin_templates, template_run>>

vars == <<boq_vars, afford_vars, store_vars, nav_vars, editor_vars>>

---------------------------------------------------------------------------
(* Fixed-point scales.                                                     *)

\* consumption_per_m2 is held in tenths (0.40 is 4)
ConsScale == 10
\* quality_multiplier is held in quarters (1.0 is 4, 1.25 is 5, 1.5 is 6)
QualScale == 4
\* location_multiplier is held in tenths (0.9 is 9, 1.0 is 10)
LocScale == 10
\* slider percentages are integers divided by 100.0
PctScale == 100
\* a quantity: consumption_per_m2 * quality_multiplier * area, or fq * cnt
QtyScale == ConsScale * QualScale
\* a scaled unit price: price * location_multiplier
PriceScale == LocScale
\* a cost: quantity * unit price
CostScale == QtyScale * PriceScale

---------------------------------------------------------------------------
(* Strings of the source, as code points.                                  *)

\* "Internal door"
s_Internal_door == <<73, 110, 116, 101, 114, 110, 97, 108, 32, 100, 111, 111, 114>>
\* "Internal door (each)"
s_Internal_door_each == <<73, 110, 116, 101, 114, 110, 97, 108, 32, 100, 111, 111, 114, 32, 40, 101, 97, 99, 104, 41>>
\* "Window (each)"
s_Window_each == <<87, 105, 110, 100, 111, 119, 32, 40, 101, 97, 99, 104, 41>>
\* "Light fixture"
s_Light_fixture == <<76, 105, 103, 104, 116, 32, 102, 105, 120, 116, 117, 114, 101>>
\* "Light fixture (each)"
s_Light_fixture_each == <<76, 105, 103, 104, 116, 32, 102, 105, 120, 116, 117, 114, 101, 32, 40, 101, 97, 99, 104, 41>>
\* "Toilet (WC) (each)"
s_Toilet_WC_each == <<84, 111, 105, 108, 101, 116, 32, 40, 87, 67, 41, 32, 40, 101, 97, 99, 104, 41>>
\* "Wash basin (each)"
s_Wash_basin_each == <<87, 97, 115, 104, 32, 98, 97, 115, 105, 110, 32, 40, 101, 97, 99, 104, 41>>
\* "Shower set (each)"
s_Shower_set_each == <<83, 104, 111, 119, 101, 114, 32, 115, 101, 116, 32, 40, 101, 97, 99, 104, 41>>
\* "Kitchen sink (each)"
s_Kitchen_sink_each == <<75, 105, 116, 99, 104, 101, 110, 32, 115, 105, 110, 107, 32, 40, 101, 97, 99, 104, 41>>
\* "Kitchen cabinet (per lm)"
s_Kitchen_cabinet_per_lm == <<75, 105, 116, 99, 104, 101, 110, 32, 99, 97, 98, 105, 110, 101, 116, 32, 40, 112, 101, 114, 32, 108, 109, 41>>
\* "Gate (each)"
s_Gate_each == <<71, 97, 116, 101, 32, 40, 101, 97, 99, 104, 41>>
\* "Cement (50kg bag)"
s_Cement_50kg_bag == <<67, 101, 109, 101, 110, 116, 32, 40, 53, 48, 107, 103, 32, 98, 97, 103, 41>>
\* " (user)", the suffix of f"{fk} (user)"
s_user_suffix == <<32, 40, 117, 115, 101, 114, 41>>

(* Names a user can type into the Materials DB editor or into a fixture    *)
(* label: case variants of the names above, and a longer name holding one. *)
\* "INTERNAL DOOR (EACH)"
s_INTERNAL_DOOR_EACH_upper == <<73, 78, 84, 69, 82, 78, 65, 76, 32, 68, 79, 79, 82, 32, 40, 69, 65, 67, 72, 41>>
\* "Sliding internal door"
s_Sliding_internal_door == <<83, 108, 105, 100, 105, 110, 103, 32, 105, 110, 116, 101, 114, 110, 97, 108, 32, 100, 111, 111, 114>>
\* "SLIDING INTERNAL DOOR"
s_SLIDING_INTERNAL_DOOR_upper == <<83, 76, 73, 68, 73, 78, 71, 32, 73, 78, 84, 69, 82, 78, 65, 76, 32, 68, 79, 79, 82>>
\* "internal door"
s_internal_door_lower == <<105, 110, 116, 101, 114, 110, 97, 108, 32, 100, 111, 111, 114>>
\* "Skylight"
s_Skylight == <<83, 107, 121, 108, 105, 103, 104, 116>>

---------------------------------------------------------------------------
(* str operations.                                                         *)

\* str.lower(), on the ASCII letters (the names used hold no other cased letter)
lower(s) == [i \in 1..Len(s) |-> IF s[i] \in 65..90 THEN s[i] + 32 ELSE s[i]]

\* Python's  needle in hay  on two str
str_in(needle, hay) ==
    \E i \in 0..(Len(hay) - Len(needle)) :
        SubSeq(hay, i + 1, i + Len(needle)) = needle

\* Python's  a < b  on two str: code-point lexicographic order
str_lt(a, b) ==
    \E i \in 1..(Len(a) + 1) :
        /\ i <= Len(b)
        /\ \A j \in 1..(i - 1) : a[j] = b[j]
        /\ (i = Len(a) + 1 \/ a[i] < b[i])

\* FIXTURE_ITEM_MAP: fixture label -> catalog item name
FIXTURE_ITEM_MAP ==
    (s_Internal_door :> s_Internal_door_each)
    @@ (s_Window_each :> s_Window_each)
    @@ (s_Light_fixture :> s_Light_fixture_each)
    @@ (s_Toilet_WC_each :> s_Toilet_WC_each)
    @@ (s_Wash_basin_each :> s_Wash_basin_each)
    @@ (s_Shower_set_each :> s_Shower_set_each)
    @@ (s_Kitchen_sink_each :> s_Kitchen_sink_each)
    @@ (s_Kitchen_cabinet_per_lm :> s_Kitchen_cabinet_per_lm)
    @@ (s_Gate_each :> s_Gate_each)

---------------------------------------------------------------------------
(* pandas helpers of build_boq.                                            *)

\* pd.to_numeric(cell, errors="coerce"): a number, or NaN for what cannot
\* be parsed
to_numeric(cell) ==
    IF cell.kind = "num" THEN [nan |-> FALSE, val |-> cell.val]
    ELSE [nan |-> TRUE, val |-> 0]

\* Series.fillna(d): only NaN is replaced
fillna(n, d) == IF n.nan THEN d ELSE n.val

\* mat = materials_df.copy() with the price and consumption_per_m2 columns
\* coerced and scaled; price is then in 1/PriceScale, consumption_per_m2
\* in 1/QtyScale
scaled_mat(df, quality, location) ==
    [i \in 1..Len(df) |->
        [item |-> df[i].item,
         unit |-> df[i].unit,
         price |-> fillna(to_numeric(df[i].price), 0) * location,
         phase |-> df[i].phase,
         consumption_per_m2 |->
             fillna(to_numeric(df[i].consumption_per_m2), 0) * quality]]

\* mat["item"].tolist()
item_list(mat) == [i \in 1..Len(mat) |-> mat[i].item]

\* the keys of item_lookup = {s.lower(): s for s in items}, in the dict's
\* order: a key stands where its first occurrence stands
RECURSIVE item_lookup_keys(_)
item_lookup_keys(items) ==
    IF items = <<>> THEN <<>>
    ELSE LET front == item_lookup_keys(SubSeq(items, 1, Len(items) - 1))
             k == lower(items[Len(items)])
         IN IF \E i \in 1..Len(front) : front[i] = k THEN front
            ELSE Append(front, k)

\* item_lookup[k]: a later item with the same lower-cased name overwrites
\* the value of an earlier one
item_lookup_get(items, k) ==
    LET last == CHOOSE i \in 1..Len(items) :
                    /\ lower(items[i]) = k
                    /\ \A j \in (i + 1)..Len(items) : lower(items[j]) # k
    IN items[last]

\* k in item_lookup
in_item_lookup(items, k) == \E i \in 1..Len(items) : lower(items[i]) = k

\* Python's None; the code tests find_match's result and the alias for
\* truth, which the empty str fails as None does
None == <<>>

\* FIXTURE_ITEM_MAP.get(key)
fixture_item_map_get(k) ==
    IF k \in DOMAIN FIXTURE_ITEM_MAP THEN FIXTURE_ITEM_MAP[k] ELSE None

\* build_boq.find_match(key), with item_lookup built from `items`
find_match(k, items) ==
    LET mapped == fixture_item_map_get(k)
        keys == item_lookup_keys(items)
    IN IF mapped # None /\ in_item_lookup(items, lower(mapped))
       THEN item_lookup_get(items, lower(mapped))
       ELSE IF in_item_lookup(items, lower(k))
       THEN item_lookup_get(items, lower(k))
       ELSE IF \E i \in 1..Len(keys) : str_in(lower(k), keys[i])
       THEN LET first == CHOOSE i \in 1..Len(keys) :
                             /\ str_in(lower(k), keys[i])
                             /\ \A j \in 1..(i - 1) : ~str_in(lower(k), keys[j])
            IN item_lookup_get(items, keys[first])
       ELSE None

---------------------------------------------------------------------------
(* build_boq.                                                              *)

\* sum(f[x] for x in S)
RECURSIVE sum_over(_, _)
sum_over(f, S) ==
    IF S = {} THEN 0
    ELSE LET x == CHOOSE y \in S : TRUE
         IN f[x] + sum_over(f, S \ {x})

\* templates.get(room, {}).get("area_m2", 0.0)
template_area(templates, room) ==
    IF room \in DOMAIN templates THEN templates[room].area_m2 ELSE 0

\* templates.get(room, {}).get("fixtures", {})
template_fixtures(templates, room) ==
    IF room \in DOMAIN templates THEN templates[room].fixtures ELSE <<>>

\* total_area with the count left out of the product: a room that is
\* present adds its area once
total_area_once_per_room(cnts, templates) ==
    sum_over([room \in DOMAIN cnts |->
                 IF cnts[room] > 0 THEN template_area(templates, room)
                 ELSE 0],
             DOMAIN cnts)

\* total_area: every count is added, whatever its sign
total_area(cnts, templates) ==
    sum_over([room \in DOMAIN cnts |->
                 cnts[room] * template_area(templates, room)],
             DOMAIN cnts)

\* the fixture loop with the guard  if cnt <= 1: continue
fixture_pairs_skipping_one(cnts, templates) ==
    UNION {{<<room, fk>> :
              fk \in {f \in DOMAIN template_fixtures(templates, room) :
                         template_fixtures(templates, room)[f] > 0}} :
           room \in {r \in DOMAIN cnts : cnts[r] > 1}}

\* the (room, fixture) pairs the fixture loop does not skip
fixture_pairs(cnts, templates) ==
    UNION {{<<room, fk>> :
              fk \in {f \in DOMAIN template_fixtures(templates, room) :
                         template_fixtures(templates, room)[f] > 0}} :
           room \in {r \in DOMAIN cnts : cnts[r] > 0}}

\* the fixture loop adding an unmatched fixture under its bare label
fixture_item_bare_label(fk, items) ==
    LET m == find_match(fk, items)
    IN IF m # None THEN m ELSE fk

\* the qty_map key a fixture adds to: the matched item, or f"{fk} (user)"
fixture_item(fk, items) ==
    LET m == find_match(fk, items)
    IN IF m # None THEN m ELSE fk \o s_user_suffix

\* the area-driven quantity qty_map starts with: a later catalog row of
\* the same item overwrites an earlier one; a key not yet there reads 0.0
seed_qty(mat, name, area) ==
    IF \E i \in 1..Len(mat) : mat[i].item = name
    THEN LET last == CHOOSE i \in 1..Len(mat) :
                         /\ mat[i].item = name
                         /\ \A j \in (i + 1)..Len(mat) : mat[j].item # name
         IN mat[last].consumption_per_m2 * area
    ELSE 0

\* qty_map after both loops: item name -> quantity, in 1/QtyScale
qty_map(mat, cnts, templates) ==
    LET items == item_list(mat)
        area == total_area(cnts, templates)
        pairs == fixture_pairs(cnts, templates)
        names == {items[i] : i \in 1..Len(items)}
                 \cup {fixture_item(p[2], items) : p \in pairs}
    IN [name \in names |->
           seed_qty(mat, name, area)
           + QtyScale * sum_over(
                 [p \in pairs |->
                     template_fixtures(templates, p[1])[p[2]] * cnts[p[1]]],
                 {p \in pairs : fixture_item(p[2], items) = name})]

\* an element of `rows` whose total_cost is priced from the last catalog
\* row of the item (iloc[-1]) while unit_price is the first one's
boq_row_cost_from_last(mat, item_name, qty) ==
    IF \E i \in 1..Len(mat) : mat[i].item = item_name
    THEN LET first == CHOOSE i \in 1..Len(mat) :
                          /\ mat[i].item = item_name
                          /\ \A j \in 1..(i - 1) : mat[j].item # item_name
             last == CHOOSE i \in 1..Len(mat) :
                         /\ mat[i].item = item_name
                         /\ \A j \in (i + 1)..Len(mat) : mat[j].item # item_name
             r == mat[first]
         IN [item |-> item_name, unit |-> r.unit, total_qty |-> qty,
             unit_price |-> r.price, total_cost |-> qty * mat[last].price,
             phase |-> r.phase]
    ELSE [item |-> item_name, unit |-> "each", total_qty |-> qty,
          unit_price |-> 0, total_cost |-> qty * 0, phase |-> "Misc"]

\* one element of `rows`: the first catalog row of the item gives unit,
\* price and phase; an item not in the catalog is ("each", 0.0, "Misc")
boq_row(mat, item_name, qty) ==
    IF \E i \in 1..Len(mat) : mat[i].item = item_name
    THEN LET first == CHOOSE i \in 1..Len(mat) :
                          /\ mat[i].item = item_name
                          /\ \A j \in 1..(i - 1) : mat[j].item # item_name
             r == mat[first]
         IN [item |-> item_name, unit |-> r.unit, total_qty |-> qty,
             unit_price |-> r.price, total_cost |-> qty * r.price,
             phase |-> r.phase]
    ELSE [item |-> item_name, unit |-> "each", total_qty |-> qty,
          unit_price |-> 0, total_cost |-> qty * 0, phase |-> "Misc"]

\* the group key of boq_df.groupby(["item","unit","unit_price","phase"])
row_key(r) == <<r.item, r.unit, r.unit_price, r.phase>>

\* the order groupby sorts its keys in: by item, then by unit_price (two
\* keys of one item never differ in unit or phase alone here)
key_lt(a, b) ==
    \/ str_lt(a[1], b[1])
    \/ (a[1] = b[1] /\ a[3] < b[3])

RECURSIVE sorted_keys(_)
sorted_keys(S) ==
    IF S = {} THEN <<>>
    ELSE LET m == CHOOSE k \in S : \A o \in S \ {k} : key_lt(k, o)
         IN <<m>> \o sorted_keys(S \ {m})

\* sum of column `col` over the rows whose group key is k
sum_rows(rows, idx, col) ==
    sum_over([i \in idx |-> rows[i][col]], idx)

\* groupby([...], as_index=False).agg({"total_qty":"sum","total_cost":"sum"}):
\* one row per key, keys sorted
groupby_agg(rows) ==
    LET keys == sorted_keys({row_key(rows[i]) : i \in 1..Len(rows)})
    IN [n \in 1..Len(keys) |->
           LET k == keys[n]
               idx == {i \in 1..Len(rows) : row_key(rows[i]) = k}
           IN [item |-> k[1], unit |-> k[2], unit_price |-> k[3],
               phase |-> k[4],
               total_qty |-> sum_rows(rows, idx, "total_qty"),
               total_cost |-> sum_rows(rows, idx, "total_cost")]]

\* a set of str as a list (qty_map.items(): the order does not reach the
\* result, groupby sorts)
RECURSIVE names_list(_)
names_list(S) ==
    IF S = {} THEN <<>>
    ELSE LET m == CHOOSE k \in S : \A o \in S \ {k} : str_lt(k, o)
         IN <<m>> \o names_list(S \ {m})

\* build_boq(counts, templates, materials_df, quality_multiplier,
\*           location_multiplier)
build_boq(cnts, templates, df, quality, location) ==
    LET mat == scaled_mat(df, quality, location)
        qm == qty_map(mat, cnts, templates)
        order == names_list(DOMAIN qm)
        rows == [n \in 1..Len(order) |-> boq_row(mat, order[n], qm[order[n]])]
    IN IF rows = <<>> THEN <<>> ELSE groupby_agg(rows)

---------------------------------------------------------------------------
(* Projection page: phase totals and cost rollup.                          *)

\* the distinct phases of the rows, in the order they first appear
RECURSIVE first_seen_phases(_)
first_seen_phases(rows) ==
    IF rows = <<>> THEN <<>>
    ELSE LET front == first_seen_phases(SubSeq(rows, 1, Len(rows) - 1))
             ph == rows[Len(rows)].phase
         IN IF \E i \in 1..Len(front) : front[i] = ph THEN front
            ELSE Append(front, ph)

\* the alphabetical rank of a phase name
phase_rank(ph) ==
    CASE ph = "External" -> 1
      [] ph = "Finishing" -> 2
      [] ph = "Foundation" -> 3
      [] ph = "Labor" -> 4
      [] ph = "Misc" -> 5
      [] ph = "Roofing" -> 6
      [] ph = "Structure" -> 7

RECURSIVE phases_by_rank(_)
phases_by_rank(S) ==
    IF S = {} THEN <<>>
    ELSE LET m == CHOOSE ph \in S :
                      \A o \in S \ {ph} : phase_rank(ph) < phase_rank(o)
         IN <<m>> \o phases_by_rank(S \ {m})

\* boq.groupby("phase")["total_cost"].sum() with groupby's default
\* sort=True: the phases come out in alphabetical order
group_phase_totals_sorted(rows) ==
    LET phases == phases_by_rank({rows[i].phase : i \in 1..Len(rows)})
    IN [n \in 1..Len(phases) |->
           [phase |-> phases[n],
            phase_cost |->
                sum_rows(rows,
                         {i \in 1..Len(rows) : rows[i].phase = phases[n]},
                         "total_cost")]]

\* boq.groupby("phase", sort=False)["total_cost"].sum(), as
\* (phase, phase_cost) rows
group_phase_totals(rows) ==
    LET phases == first_seen_phases(rows)
    IN [n \in 1..Len(phases) |->
           [phase |-> phases[n],
            phase_cost |->
                sum_rows(rows,
                         {i \in 1..Len(rows) : rows[i].phase = phases[n]},
                         "total_cost")]]

\* boq["total_cost"].sum()
boq_base_total(rows) == sum_rows(rows, 1..Len(rows), "total_cost")

\* the rollup with the contingency taken on base_total + extra_cost
\* (compounded) instead of on base_total
rollup_compounded(rows, margin_pct, fees_pct, contingency_pct) ==
    LET base_total == boq_base_total(rows)
        extra_cost == base_total * margin_pct
        pro_cost == base_total * fees_pct
        cont_cost == ((base_total * PctScale + extra_cost) * contingency_pct)
                     \div PctScale
    IN [base_total |-> base_total,
        extra_margin_pct |-> margin_pct,
        professional_fees_pct |-> fees_pct,
        contingency_pct |-> contingency_pct,
        extra_cost |-> extra_cost,
        pro_cost |-> pro_cost,
        cont_cost |-> cont_cost,
        grand_total |-> base_total * PctScale + extra_cost + pro_cost + cont_cost]

\* base_total .. grand_total of the Projection page; the three percentages
\* are the sliders' integers, so the costs derived from them are in
\* 1/(CostScale * PctScale)
rollup(rows, margin_pct, fees_pct, contingency_pct) ==
    LET base_total == boq_base_total(rows)
        extra_cost == base_total * margin_pct
        pro_cost == base_total * fees_pct
        cont_cost == base_total * contingency_pct
    IN [base_total |-> base_total,
        extra_margin_pct |-> margin_pct,
        professional_fees_pct |-> fees_pct,
        contingency_pct |-> contingency_pct,
        extra_cost |-> extra_cost,
        pro_cost |-> pro_cost,
        cont_cost |-> cont_cost,
        grand_total |-> base_total * PctScale + extra_cost + pro_cost + cont_cost]

---------------------------------------------------------------------------
(* Affordability scheduler.                                                *)
(* Money is in whole cedis.  A time in months is held in 1/MonthScale of a *)
(* month.  The floats of the schedule that can be infinite or NaN          *)
(* (inflated, months, start, end) are [k, v]: k is "fin" with the value v, *)
(* or "inf", "-inf", "nan" with v = 0.                                     *)

\* months are held in quarters (1.75 months is 7)
MonthScale == 4

fin(n) == [k |-> "fin", v |-> n]
float_inf == [k |-> "inf", v |-> 0]
float_neg_inf == [k |-> "-inf", v |-> 0]
float_nan == [k |-> "nan", v |-> 0]

\* np.isfinite(x)
isfinite(x) == x.k = "fin"

\* -1, 0 or 1: the sign of a float that is not NaN
float_sign(x) ==
    CASE x.k = "inf" -> 1
      [] x.k = "-inf" -> -1
      [] OTHER -> IF x.v > 0 THEN 1 ELSE IF x.v < 0 THEN -1 ELSE 0

\* a * b of two floats: 0 * inf is NaN
float_mul(a, b) ==
    IF a.k = "nan" \/ b.k = "nan" THEN float_nan
    ELSE IF isfinite(a) /\ isfinite(b) THEN fin(a.v * b.v)
    ELSE IF float_sign(a) * float_sign(b) = 0 THEN float_nan
    ELSE IF float_sign(a) * float_sign(b) > 0 THEN float_inf
    ELSE float_neg_inf

\* a + b of two floats: inf + -inf is NaN
float_add(a, b) ==
    IF a.k = "nan" \/ b.k = "nan" THEN float_nan
    ELSE IF isfinite(a) /\ isfinite(b) THEN fin(a.v + b.v)
    ELSE IF isfinite(a) THEN b
    ELSE IF isfinite(b) THEN a
    ELSE IF a.k = b.k THEN a
    ELSE float_nan

\* a < b of two floats: every comparison with NaN is false
float_lt(a, b) ==
    /\ a.k # "nan"
    /\ b.k # "nan"
    /\ \/ a.k = "-inf" /\ b.k # "-inf"
       \/ b.k = "inf" /\ a.k # "inf"
       \/ isfinite(a) /\ isfinite(b) /\ a.v < b.v

\* a <= b of two floats
float_le(a, b) ==
    /\ a.k # "nan"
    /\ b.k # "nan"
    /\ (float_lt(a, b) \/ (a.k = b.k /\ a.v = b.v))

RECURSIVE int_pow(_, _)
int_pow(b, n) == IF n <= 0 THEN 1 ELSE b * int_pow(b, n - 1)

\* (1 + inflation_pct/100.0) ** (cum_month / 12.0).  The rates modelled are
\* whole multiples of 100 % and, when the rate is not 0, the inputs keep
\* cum_month at a whole number of years, so that the power is exact;
\* 1.0 ** inf is 1.0 and b ** inf is inf for b > 1.
power_infl_factor(inflation, cum) ==
    LET b == 1 + inflation \div PctScale
    IN IF b = 1 THEN fin(1)
       ELSE IF cum.k = "inf" THEN float_inf
       ELSE fin(int_pow(b, cum.v \div (12 * MonthScale)))

\* inflated / monthly_savings if monthly_savings > 0 else float("inf")
months_of(inflated, savings) ==
    IF savings > 0
    THEN IF isfinite(inflated)
         THEN fin((inflated.v * MonthScale) \div savings)
         ELSE inflated
    ELSE float_inf

\* min(a, b), max(a, b) of two numbers
min(a, b) == IF a <= b THEN a ELSE b
max(a, b) == IF a >= b THEN a ELSE b

\* the loop body with end = months_needed, the start month left out
schedule_phase_end_only(ph, base_cost, upfront, cum, savings, inflation) ==
    LET applied == min(upfront, base_cost)
        base_cost_after == IF upfront > 0
                           THEN max(0, base_cost - applied)
                           ELSE base_cost
        infl_factor == power_infl_factor(inflation, cum)
        inflated == float_mul(fin(base_cost_after), infl_factor)
        months_needed == months_of(inflated, savings)
        start == cum
        end == months_needed
    IN [entry |-> [phase |-> ph, base |-> base_cost,
                   after_upfront |-> base_cost_after, inflated |-> inflated,
                   months |-> months_needed, start |-> start, end |-> end],
        remaining_upfront |-> IF upfront > 0 THEN upfront - applied
                              ELSE upfront,
        cum_month |-> end]

\* one iteration of the schedule loop for phase ph: the entry appended to
\* results and the loop variables after it
schedule_phase(ph, base_cost, upfront, cum, savings, inflation) ==
    LET applied == min(upfront, base_cost)
        base_cost_after == IF upfront > 0
                           THEN max(0, base_cost - applied)
                           ELSE base_cost
        infl_factor == power_infl_factor(inflation, cum)
        inflated == float_mul(fin(base_cost_after), infl_factor)
        months_needed == months_of(inflated, savings)
        start == cum
        end == float_add(start, months_needed)
    IN [entry |-> [phase |-> ph, base |-> base_cost,
                   after_upfront |-> base_cost_after, inflated |-> inflated,
                   months |-> months_needed, start |-> start, end |-> end],
        remaining_upfront |-> IF upfront > 0 THEN upfront - applied
                              ELSE upfront,
        cum_month |-> end]

\* phase_tot.get(ph, 0.0)
phase_tot_get(tot, ph) ==
    IF \E i \in 1..Len(tot) : tot[i].phase = ph
    THEN tot[CHOOSE i \in 1..Len(tot) : tot[i].phase = ph].phase_cost
    ELSE 0

\* list(phase_tot.keys())
phase_tot_keys(tot) == [i \in 1..Len(tot) |-> tot[i].phase]

\* res_df["end"].max()
RECURSIVE max_end(_)
max_end(res) ==
    IF Len(res) = 1 THEN res[1].end
    ELSE LET rest == max_end(Tail(res))
         IN IF float_lt(rest, res[1].end) THEN res[1].end ELSE rest

\* int(np.ceil(x)) of a finite time x, in months
ceil_months(x) == -((-x.v) \div MonthScale)

\* months_span
months_span_of(res) ==
    max(1, IF isfinite(max_end(res)) THEN ceil_months(max_end(res)) ELSE 1)

\* the curve with a phase's whole inflated cost required from its start
\* month on, instead of from its end month
required_of_entry_from_start(r, m) ==
    IF float_le(r.start, fin(m * MonthScale)) /\ isfinite(r.inflated)
    THEN r.inflated.v
    ELSE 0

\* what entry r adds to req at month m
required_of_entry(r, m) ==
    IF float_le(r.end, fin(m * MonthScale)) THEN r.inflated.v
    ELSE IF float_lt(r.start, fin(m * MonthScale))
              /\ isfinite(r.months) /\ r.months.v > 0
         THEN IF m * MonthScale - r.start.v >= r.months.v
              THEN r.inflated.v
              ELSE (r.inflated.v * (m * MonthScale - r.start.v))
                   \div r.months.v
         ELSE 0

\* req of the curve loop at month m
RECURSIVE required_at(_, _)
required_at(res, m) ==
    IF res = <<>> THEN 0
    ELSE required_of_entry(res[1], m) + required_at(Tail(res), m)

\* df_cum, one row per month 0 .. months_span
cumulative_curve(res, savings, upfront) ==
    [n \in 1..(months_span_of(res) + 1) |->
        [Month |-> n - 1,
         CumulativeSavings |-> (n - 1) * savings + upfront,
         CumulativeRequired |-> required_at(res, n - 1)]]

\* the Affordability page has not run
AffordabilityNotOpened ==
    /\ phase_tot = <<>>
    /\ phase_order = <<>>
    /\ one_time = 0
    /\ monthly_savings = 0
    /\ inflation_pct = 0
    /\ remaining_upfront = 0
    /\ cum_month = fin(0)
    /\ results = <<>>
    /\ upfront_trace = <<>>
    /\ curve = <<>>
    /\ final_months = fin(0)

---------------------------------------------------------------------------
(* The store files and the project store.                                  *)
(* A file is [kind, data]: kind "absent" (no such file), "corrupt" (it     *)
(* cannot be opened or is not JSON), or "json" with the value it holds.    *)
(* A project's room_templates is a Python reference: [alias, own] is the   *)
(* session's live room_templates dict itself (alias) or a dict of the      *)
(* project's own.  The created_at timestamp is left out.                   *)

file_absent == [kind |-> "absent", data |-> <<>>]
file_corrupt == [kind |-> "corrupt", data |-> <<>>]
json_file(data) == [kind |-> "json", data |-> data]

\* {}
empty_store == <<>>

\* st.session_state["room_templates"], the object
live_templates_ref == [alias |-> TRUE, own |-> <<>>]
\* a dict that json.load built
own_templates(t) == [alias |-> FALSE, own |-> t]

\* the value of project["room_templates"] when the live templates are live
project_templates(project, live) ==
    IF project.room_templates.alias THEN live
    ELSE project.room_templates.own

\* what json.dump writes for one project: a reference is written as the
\* value it refers to
json_of_project(project, live) ==
    [name |-> project.name,
     counts |-> project.counts,
     room_templates |-> project_templates(project, live),
     quality_multiplier |-> project.quality_multiplier,
     location_multiplier |-> project.location_multiplier]

\* json.dump(obj, f, indent=2)
json_dump(obj, live) ==
    json_file([n \in DOMAIN obj |-> json_of_project(obj[n], live)])

\* json.load(f): every dict of the result is a new object
json_load(data) ==
    [n \in DOMAIN data |->
        [name |-> data[n].name,
         counts |-> data[n].counts,
         room_templates |-> own_templates(data[n].room_templates),
         quality_multiplier |-> data[n].quality_multiplier,
         location_multiplier |-> data[n].location_multiplier]]

\* save_projects_db(obj): the file it leaves
save_projects_db(obj, live) == json_dump(obj, live)

\* load_projects_db()
load_projects_db(file) ==
    IF file.kind = "json" THEN json_load(file.data) ELSE empty_store

\* the columns load_materials_db requires
MaterialsColumns == {"item", "unit", "price", "phase", "consumption_per_m2"}

\* the data of a materials file: a list of records with the same keys
\* (a table), or a JSON value pd.DataFrame refuses (a bare number)
json_table(rows) == [shape |-> "records", rows |-> rows]
json_scalar == [shape |-> "scalar", rows |-> <<>>]

\* df with df[col] = 0 for every required column it lacks
with_required_columns(rows) ==
    [i \in 1..Len(rows) |->
        [col \in MaterialsColumns \cup DOMAIN rows[i] |->
            IF col \in DOMAIN rows[i] THEN rows[i][col] ELSE 0]]

\* the session and its files are not part of the run
NoSession ==
    /\ projects = empty_store
    /\ projects_file = file_absent
    /\ materials_file = file_absent
    /\ saved_snapshots = empty_store
    /\ sel_proj = "(Use current session inputs)"
    /\ interactions = 0

\* a key of st.session_state: not set, or set to a value
absent == [present |-> FALSE, val |-> <<>>]
stored(v) == [present |-> TRUE, val |-> v]

\* the session after its first run: the flags of lines 255-257, no cached
\* projection, and the Affordability page not shown yet
NotNavigating ==
    /\ page = "Inputs"
    /\ go_to_affordability = FALSE
    /\ projection_ran = FALSE
    /\ last_projection_counts = absent
    /\ last_projection_qmult = absent
    /\ last_projection_lmult = absent
    /\ last_projection_boq = absent
    /\ boq_df = <<>>
    /\ info = "(page not shown)"

---------------------------------------------------------------------------
(* Inputs.                                                                 *)

\* catalogs hold at most this many rows when find_match is exercised
MaxMatchCatalog == 3
\* catalogs hold at most this many rows when build_boq is exercised
MaxBoqCatalog == 2
\* the largest room count
MaxCount == 2

SeqsUpTo(S, n) == UNION {[1..m -> S] : m \in 0..n}

num(v) == [kind |-> "num", val |-> v]
text == [kind |-> "text", val |-> 0]

\* DEFAULT_ROOM_TEMPLATES, for the two room types modelled
DEFAULT_ROOM_TEMPLATES ==
    [room \in {"Living Room", "Dining Room"} |->
        CASE room = "Living Room" ->
                 [area_m2 |-> 20,
                  fixtures |-> (s_Internal_door :> 1) @@ (s_Window_each :> 3)
                               @@ (s_Light_fixture :> 3)]
          [] room = "Dining Room" ->
                 [area_m2 |-> 12,
                  fixtures |-> (s_Light_fixture :> 2) @@ (s_Window_each :> 2)]]

Rooms == DOMAIN DEFAULT_ROOM_TEMPLATES

\* DEFAULT_ROOM_TEMPLATES of run r at the end of the template editor, which
\* has written the widget values into the session's dicts: a dict of the
\* session is a dict of this DEFAULT_ROOM_TEMPLATES when it comes from
\* run r, and no other write reaches the built-in templates
builtin_after_editor(r, from_run, widgets) ==
    [room \in Rooms |->
        IF from_run[room] = r
        THEN [area_m2 |-> widgets[room].area_m2,
              fixtures |-> [fk \in DOMAIN DEFAULT_ROOM_TEMPLATES[room].fixtures
                               |-> widgets[room].fixtures[fk]]]
        ELSE DEFAULT_ROOM_TEMPLATES[room]]

\* the template editor's widgets hold the templates' values, as after the
\* first run of a session (run 0), whose room_templates is a shallow copy
\* of that run's DEFAULT_ROOM_TEMPLATES
EditorAtTemplates ==
    /\ editor_widgets = room_templates
    /\ template_run = [room \in Rooms |-> 0]
    /\ builtin_templates =
           builtin_after_editor(0, [room \in Rooms |-> 0],
                                DEFAULT_ROOM_TEMPLATES)

\* the templates after the Inputs page's editor has set every fixture
\* quantity to 0.0 (its minimum)
zeroed_fixture_templates ==
    [room \in Rooms |->
        [area_m2 |-> DEFAULT_ROOM_TEMPLATES[room].area_m2,
         fixtures |-> [f \in DOMAIN DEFAULT_ROOM_TEMPLATES[room].fixtures |-> 0]]]

TemplateChoices == {DEFAULT_ROOM_TEMPLATES, zeroed_fixture_templates}

\* rows of default_materials_list(), and rows as the Materials DB editor or
\* a CSV import can leave them: unparsable cells, negative numbers, an item
\* listed twice
row_cement ==
    [item |-> s_Cement_50kg_bag, unit |-> "bag", price |-> num(125),
     phase |-> "Foundation", consumption_per_m2 |-> num(4)]
row_internal_door ==
    [item |-> s_Internal_door_each, unit |-> "each", price |-> num(700),
     phase |-> "Finishing", consumption_per_m2 |-> num(0)]
row_light_fixture ==
    [item |-> s_Light_fixture_each, unit |-> "each", price |-> num(150),
     phase |-> "Finishing", consumption_per_m2 |-> num(0)]
row_cement_text ==
    [item |-> s_Cement_50kg_bag, unit |-> "bag", price |-> text,
     phase |-> "Foundation", consumption_per_m2 |-> text]
row_light_fixture_negative ==
    [item |-> s_Light_fixture_each, unit |-> "set", price |-> num(-150),
     phase |-> "External", consumption_per_m2 |-> num(-1)]

BoqRowPool == {row_cement, row_internal_door, row_light_fixture,
               row_cement_text, row_light_fixture_negative}

BoqCatalogs == SeqsUpTo(BoqRowPool, MaxBoqCatalog)

CountValues == (-1)..MaxCount

\* (quality_multiplier, location_multiplier): (1.0, 1.0) and (1.25, 0.9)
MultiplierChoices == {<<4, 10>>, <<5, 9>>}

\* (extra margin, professional fees, contingency) slider positions: the
\* lowest, the defaults, the highest
PercentChoices == {<<0, 0, 0>>, <<10, 6, 10>>, <<30, 15, 30>>}

\* item names of the catalogs find_match is exercised on
MatchItemNames == {s_Internal_door_each, s_INTERNAL_DOOR_EACH_upper,
                   s_Internal_door, s_Sliding_internal_door,
                   s_SLIDING_INTERNAL_DOOR_upper, s_Gate_each}

match_row(name) ==
    [item |-> name, unit |-> "each", price |-> num(0),
     phase |-> "Finishing", consumption_per_m2 |-> num(0)]

MatchCatalogs ==
    {[i \in 1..Len(names) |-> match_row(names[i])] :
        names \in SeqsUpTo(MatchItemNames, MaxMatchCatalog)}

\* fixture labels handed to find_match: with an alias, without, unknown
MatchKeys == {s_Internal_door, s_internal_door_lower, s_Gate_each, s_Skylight}

no_summary == [base_total |-> 0, extra_margin_pct |-> 0,
               professional_fees_pct |-> 0, contingency_pct |-> 0,
               extra_cost |-> 0, pro_cost |-> 0, cont_cost |-> 0,
               grand_total |-> 0]

---------------------------------------------------------------------------
(* find_match on a catalog.                                                *)

InitMatch ==
    /\ pc = "inputs"
    /\ materials_df \in MatchCatalogs
    /\ key \in MatchKeys
    /\ room_templates = DEFAULT_ROOM_TEMPLATES
    /\ counts = [room \in Rooms |-> 0]
    /\ quality_multiplier = QualScale
    /\ location_multiplier = LocScale
    /\ matched = None
    /\ boq = <<>>
    /\ phase_totals = <<>>
    /\ summary = no_summary
    /\ AffordabilityNotOpened
    /\ NotNavigating
    /\ EditorAtTemplates
    /\ NoSession

\* matched = find_match(fk), as the fixture loop of build_boq calls it
FindMatch ==
    /\ pc = "inputs"
    /\ matched' = find_match(key,
                     item_list(scaled_mat(materials_df, quality_multiplier,
                                          location_multiplier)))
    /\ pc' = "matched"
    /\ UNCHANGED <<materials_df, room_templates, counts, quality_multiplier,
                   location_multiplier, key, boq, phase_totals, summary>>
    /\ UNCHANGED afford_vars
    /\ UNCHANGED nav_vars
    /\ UNCHANGED editor_vars
    /\ UNCHANGED store_vars

NextMatch == FindMatch

SpecMatch == InitMatch /\ [][NextMatch]_vars

---------------------------------------------------------------------------
(* build_boq and the Projection page's rollup.                             *)

InitBoq ==
    /\ pc = "inputs"
    /\ materials_df \in BoqCatalogs
    /\ room_templates \in TemplateChoices
    /\ counts \in [Rooms -> CountValues]
    /\ \E m \in MultiplierChoices :
           /\ quality_multiplier = m[1]
           /\ location_multiplier = m[2]
    /\ key = None
    /\ matched = None
    /\ boq = <<>>
    /\ phase_totals = <<>>
    /\ summary = no_summary
    /\ AffordabilityNotOpened
    /\ NotNavigating
    /\ EditorAtTemplates
    /\ NoSession

\* boq = build_boq(counts, templates, materials_df, quality_multiplier,
\*                 location_multiplier)
BuildBoq ==
    /\ pc = "inputs"
    /\ boq' = build_boq(counts, room_templates, materials_df,
                        quality_multiplier, location_multiplier)
    /\ pc' = "built"
    /\ UNCHANGED <<materials_df, room_templates, counts, quality_multiplier,
                   location_multiplier, key, matched, phase_totals, summary>>
    /\ UNCHANGED afford_vars
    /\ UNCHANGED nav_vars
    /\ UNCHANGED editor_vars
    /\ UNCHANGED store_vars

\* boq.empty: the warning, and nothing is computed
NoBoqItems ==
    /\ pc = "built"
    /\ boq = <<>>
    /\ pc' = "warned"
    /\ UNCHANGED <<materials_df, room_templates, counts, quality_multiplier,
                   location_multiplier, key, matched, boq, phase_totals,
                   summary>>
    /\ UNCHANGED afford_vars
    /\ UNCHANGED nav_vars
    /\ UNCHANGED editor_vars
    /\ UNCHANGED store_vars

\* the else branch: phase totals and the rollup under the sliders' values
Rollup ==
    /\ pc = "built"
    /\ boq # <<>>
    /\ \E p \in PercentChoices :
           summary' = rollup(boq, p[1], p[2], p[3])
    /\ phase_totals' = group_phase_totals(boq)
    /\ pc' = "rolled"
    /\ UNCHANGED <<materials_df, room_templates, counts, quality_multiplier,
                   location_multiplier, key, matched, boq>>
    /\ UNCHANGED afford_vars
    /\ UNCHANGED nav_vars
    /\ UNCHANGED editor_vars
    /\ UNCHANGED store_vars

NextBoq == BuildBoq \/ NoBoqItems \/ Rollup

SpecBoq == InitBoq /\ [][NextBoq]_vars

---------------------------------------------------------------------------
(* The Affordability page: the schedule loop and the cumulative curve.     *)

\* phase_tot holds at most this many phases
MaxPhases == 2

AffordPhases == {"Foundation", "Structure", "Finishing"}

\* phase costs of the cached BOQ; a phase total is negative when the BOQ
\* has rows of negative cost (a negative catalog price or room count)
PhaseCosts == {-1200, 0, 1200, 2400}

\* one-time investment, monthly savings, annual inflation (%)
UpfrontChoices == {0, 500, 1200, 3600}
SavingsChoices == {0, 100, 400}
InflationChoices == {0, 100}

\* phase_tot: the phases of the BOQ, each once, with their costs
PhaseTotals ==
    {t \in SeqsUpTo([phase : AffordPhases, phase_cost : PhaseCosts],
                    MaxPhases) :
        /\ Len(t) >= 1
        /\ \A i, j \in 1..Len(t) : t[i].phase = t[j].phase => i = j}

\* what the multiselect can hold: the default (all phases, in phase_tot's
\* order), the phases re-entered in reverse, the first phase removed
reversed(q) == [i \in 1..Len(q) |-> q[Len(q) + 1 - i]]

BuildOrderSelections(tot) ==
    {phase_tot_keys(tot), reversed(phase_tot_keys(tot)),
     Tail(phase_tot_keys(tot))}

\* with a rate other than 0 the amounts are whole years of the savings, so
\* that every phase starts at a whole number of years
WholeYearInputs(tot, upfront, savings, inflation) ==
    \/ inflation = 0
    \/ /\ savings \in {0, 100}
       /\ upfront % 1200 = 0
       /\ \A i \in 1..Len(tot) : tot[i].phase_cost \in {0, 1200}

InitAfford ==
    /\ pc = "funding"
    /\ materials_df = <<>>
    /\ room_templates = DEFAULT_ROOM_TEMPLATES
    /\ counts = [room \in Rooms |-> 0]
    /\ quality_multiplier = QualScale
    /\ location_multiplier = LocScale
    /\ key = None
    /\ matched = None
    /\ boq = <<>>
    /\ phase_totals = <<>>
    /\ summary = no_summary
    /\ phase_tot \in PhaseTotals
    /\ one_time \in UpfrontChoices
    /\ monthly_savings \in SavingsChoices
    /\ inflation_pct \in InflationChoices
    /\ WholeYearInputs(phase_tot, one_time, monthly_savings, inflation_pct)
    /\ \E selection \in BuildOrderSelections(phase_tot) :
           phase_order = IF selection = <<>> THEN phase_tot_keys(phase_tot)
                         ELSE selection
    /\ remaining_upfront = one_time
    /\ cum_month = fin(0)
    /\ results = <<>>
    /\ upfront_trace = <<one_time>>
    /\ curve = <<>>
    /\ final_months = fin(0)
    /\ NoSession
    /\ NotNavigating
    /\ EditorAtTemplates

\* one iteration of "for i, ph in enumerate(phase_order, start=1)"
SchedulePhase ==
    /\ pc = "funding"
    /\ Len(results) < Len(phase_order)
    /\ LET ph == phase_order[Len(results) + 1]
           step == schedule_phase(ph, phase_tot_get(phase_tot, ph),
                                  remaining_upfront, cum_month,
                                  monthly_savings, inflation_pct)
       IN /\ results' = Append(results, step.entry)
          /\ remaining_upfront' = step.remaining_upfront
          /\ cum_month' = step.cum_month
          /\ upfront_trace' = Append(upfront_trace, step.remaining_upfront)
    /\ UNCHANGED <<pc, phase_tot, phase_order, one_time, monthly_savings,
                   inflation_pct, curve, final_months>>
    /\ UNCHANGED <<materials_df, room_templates, counts, quality_multiplier,
                   location_multiplier, key, matched, boq, phase_totals,
                   summary>>
    /\ UNCHANGED store_vars
    /\ UNCHANGED nav_vars
    /\ UNCHANGED editor_vars

\* after the loop: the cumulative curve and the completion metric, or the
\* warning that the project cannot be funded
FundingCurve ==
    /\ pc = "funding"
    /\ Len(results) = Len(phase_order)
    /\ curve' = cumulative_curve(results, monthly_savings, one_time)
    /\ final_months' = results[Len(results)].end
    /\ pc' = IF isfinite(results[Len(results)].end) THEN "completion"
             ELSE "unfundable"
    /\ UNCHANGED <<phase_tot, phase_order, one_time, monthly_savings,
                   inflation_pct, remaining_upfront, cum_month, results,
                   upfront_trace>>
    /\ UNCHANGED <<materials_df, room_templates, counts, quality_multiplier,
                   location_multiplier, key, matched, boq, phase_totals,
                   summary>>
    /\ UNCHANGED store_vars
    /\ UNCHANGED nav_vars
    /\ UNCHANGED editor_vars

NextAfford == SchedulePhase \/ FundingCurve

SpecAfford == InitAfford /\ [][NextAfford]_vars

---------------------------------------------------------------------------
(* Session start: load_materials_db and load_projects_db.                  *)

\* pd.DataFrame(default_materials_list()), for the three rows modelled
default_materials_list == <<row_cement, row_internal_door, row_light_fixture>>

\* load_materials_db() falling back to the defaults when the file lacks a
\* required column
load_materials_db_strict(file) ==
    IF /\ file.kind = "json"
       /\ file.data.shape = "records"
       /\ \A i \in 1..Len(file.data.rows) :
              MaterialsColumns \subseteq DOMAIN file.data.rows[i]
    THEN file.data.rows
    ELSE default_materials_list

\* load_materials_db()
load_materials_db(file) ==
    IF file.kind = "json" /\ file.data.shape = "records"
    THEN with_required_columns(file.data.rows)
    ELSE default_materials_list

\* a row of a materials file holding the columns cols only
file_row(row, cols) == [col \in cols |-> row[col]]

\* materials files: none, an unreadable one, a bare number, and tables of
\* zero to two rows that hold any subset of the required columns
MaterialsFiles ==
    {file_absent, file_corrupt, json_file(json_scalar)}
    \cup {json_file(json_table([i \in 1..Len(rows) |->
                                   file_row(rows[i], cols)])) :
             rows \in {<<>>, <<row_light_fixture_negative>>,
                       <<row_cement, row_cement_text>>},
             cols \in SUBSET MaterialsColumns}

\* a stored project as json.dump wrote it
stored_project(name, cnts, templates, qmult, lmult) ==
    [name |-> name, counts |-> cnts, room_templates |-> templates,
     quality_multiplier |-> qmult, location_multiplier |-> lmult]

ProjectNames == {"Plan A", "Plan B"}

\* projects files: none, an unreadable one, and stores of zero to two
\* projects
ProjectsFiles ==
    {file_absent, file_corrupt, json_file(empty_store),
     json_file("Plan A" :> stored_project("Plan A",
                   [room \in Rooms |-> 1], zeroed_fixture_templates, 5, 9)),
     json_file(("Plan A" :> stored_project("Plan A",
                   [room \in Rooms |-> 1], DEFAULT_ROOM_TEMPLATES, 4, 10))
               @@ ("Plan B" :> stored_project("Plan B",
                   [room \in Rooms |-> 0], zeroed_fixture_templates, 5, 9)))}

InitLoad ==
    /\ pc = "start"
    /\ materials_file \in MaterialsFiles
    /\ projects_file \in ProjectsFiles
    /\ materials_df = <<>>
    /\ projects = empty_store
    /\ saved_snapshots = empty_store
    /\ sel_proj = "(Use current session inputs)"
    /\ interactions = 0
    /\ room_templates = DEFAULT_ROOM_TEMPLATES
    /\ counts = [room \in Rooms |-> 0]
    /\ quality_multiplier = QualScale
    /\ location_multiplier = LocScale
    /\ key = None
    /\ matched = None
    /\ boq = <<>>
    /\ phase_totals = <<>>
    /\ summary = no_summary
    /\ AffordabilityNotOpened
    /\ NotNavigating
    /\ EditorAtTemplates

\* the session init of a first run: both stores are loaded
SessionInit ==
    /\ pc = "start"
    /\ materials_df' = load_materials_db(materials_file)
    /\ projects' = load_projects_db(projects_file)
    /\ room_templates' = DEFAULT_ROOM_TEMPLATES
    /\ pc' = "loaded"
    /\ UNCHANGED <<counts, quality_multiplier, location_multiplier, key,
                   matched, boq, phase_totals, summary>>
    /\ UNCHANGED <<projects_file, materials_file, saved_snapshots, sel_proj,
                   interactions>>
    /\ UNCHANGED afford_vars
    /\ UNCHANGED nav_vars
    /\ UNCHANGED editor_vars

NextLoad == SessionInit

SpecLoad == InitLoad /\ [][NextLoad]_vars

---------------------------------------------------------------------------
(* A session on the Inputs and Projection pages: template edits, Save,     *)
(* Reset, Delete and a projection of the selected project.  Every action   *)
(* is one interaction of the user and the rerun it causes.                 *)

\* the user causes at most this many reruns
MaxInteractions == 4

\* values the template editor is given: the default or one other
AreaChoices(room) == {DEFAULT_ROOM_TEMPLATES[room].area_m2, 30}
FixtureChoices(room, fk) == {DEFAULT_ROOM_TEMPLATES[room].fixtures[fk], 0}

\* the fixture whose quantity is edited
EditedFixtures(room) == DOMAIN DEFAULT_ROOM_TEMPLATES[room].fixtures
                        \cap {s_Light_fixture}

\* room counts entered on the Inputs page
SessionCounts == {[room \in Rooms |-> 1],
                  [room \in Rooms |-> IF room = "Living Room" THEN 1 ELSE 0]}

\* the projects file a session starts from
SessionFiles ==
    {file_absent,
     json_file("Plan A" :> stored_project("Plan A",
                   [room \in Rooms |-> 1], zeroed_fixture_templates, 5, 9))}

\* name -> what json.dump writes for the project now
deep_store(store, live) == [n \in DOMAIN store |-> json_of_project(store[n], live)]

\* d with d[k] = v
dict_set(d, k, v) == [n \in DOMAIN d \cup {k} |-> IF n = k THEN v ELSE d[n]]
\* d after del d[k]
dict_del(d, k) == [n \in DOMAIN d \ {k} |-> d[n]]

InitSession ==
    /\ pc = "inputs"
    /\ materials_file = file_absent
    /\ materials_df = <<row_cement, row_light_fixture>>
    /\ projects_file \in SessionFiles
    /\ projects = load_projects_db(projects_file)
    /\ saved_snapshots = deep_store(load_projects_db(projects_file),
                                    DEFAULT_ROOM_TEMPLATES)
    /\ sel_proj = "(Use current session inputs)"
    /\ interactions = 0
    /\ room_templates = DEFAULT_ROOM_TEMPLATES
    /\ counts \in SessionCounts
    /\ \E m \in MultiplierChoices :
           /\ quality_multiplier = m[1]
           /\ location_multiplier = m[2]
    /\ key = None
    /\ matched = None
    /\ boq = <<>>
    /\ phase_totals = <<>>
    /\ summary = no_summary
    /\ AffordabilityNotOpened
    /\ NotNavigating
    /\ EditorAtTemplates

\* what no handler of the Inputs page touches
InputsPageFrame ==
    /\ UNCHANGED <<materials_df, materials_file, key, matched, boq,
                   phase_totals, summary, sel_proj>>
    /\ UNCHANGED afford_vars
    /\ UNCHANGED nav_vars

\* templates after the template editor has written the widgets' values for
\* every room and every fixture of it
written_templates(templates, widgets) ==
    [room \in DOMAIN templates |->
        [area_m2 |-> widgets[room].area_m2,
         fixtures |-> [fk \in DOMAIN templates[room].fixtures |->
                          widgets[room].fixtures[fk]]]]

\* the template editor of a run of the Inputs page whose widgets hold
\* widgets: the session's templates and this run's DEFAULT_ROOM_TEMPLATES
\* after it
TemplateEditor(widgets) ==
    /\ room_templates' = written_templates(room_templates, widgets)
    /\ builtin_templates' =
           builtin_after_editor(interactions + 1, template_run, widgets)

\* the template editor is given a new area for a room
EditArea ==
    /\ interactions < MaxInteractions
    /\ \E room \in Rooms : \E new_area \in AreaChoices(room) :
           /\ new_area # editor_widgets[room].area_m2
           /\ editor_widgets' =
                  [editor_widgets EXCEPT ![room].area_m2 = new_area]
    /\ TemplateEditor(editor_widgets')
    /\ pc' = "edited"
    /\ interactions' = interactions + 1
    /\ UNCHANGED <<counts, quality_multiplier, location_multiplier, projects,
                   projects_file, saved_snapshots, template_run>>
    /\ InputsPageFrame

\* the template editor is given a new quantity for a fixture of a room
EditFixture ==
    /\ interactions < MaxInteractions
    /\ \E room \in Rooms : \E fk \in EditedFixtures(room) :
         \E new_f \in FixtureChoices(room, fk) :
           /\ new_f # editor_widgets[room].fixtures[fk]
           /\ editor_widgets' =
                  [editor_widgets EXCEPT ![room].fixtures[fk] = new_f]
    /\ TemplateEditor(editor_widgets')
    /\ pc' = "edited"
    /\ interactions' = interactions + 1
    /\ UNCHANGED <<counts, quality_multiplier, location_multiplier, projects,
                   projects_file, saved_snapshots, template_run>>
    /\ InputsPageFrame

\* the project dict "Save Inputs / Create Project" builds: room_templates
\* is the session's dict, not a copy of it
new_project(project_name) ==
    [name |-> project_name,
     counts |-> counts,
     room_templates |-> live_templates_ref,
     quality_multiplier |-> quality_multiplier,
     location_multiplier |-> location_multiplier]

\* "Save Inputs / Create Project" with the file written before the
\* project is put in the store
SaveProjectWritingFirst ==
    /\ interactions < MaxInteractions
    /\ TemplateEditor(editor_widgets)
    /\ \E project_name \in ProjectNames :
           /\ projects' = dict_set(projects, project_name,
                                   new_project(project_name))
           /\ projects_file' = save_projects_db(projects, room_templates')
           /\ saved_snapshots' =
                  dict_set(saved_snapshots, project_name,
                           json_of_project(new_project(project_name),
                                           room_templates'))
    /\ pc' = "saved"
    /\ interactions' = interactions + 1
    /\ UNCHANGED <<counts, quality_multiplier, location_multiplier,
                   editor_widgets, template_run>>
    /\ InputsPageFrame

\* "Save Inputs / Create Project"
SaveProject ==
    /\ interactions < MaxInteractions
    /\ TemplateEditor(editor_widgets)
    /\ \E project_name \in ProjectNames :
           /\ projects' = dict_set(projects, project_name,
                                   new_project(project_name))
           /\ projects_file' =
                  save_projects_db(dict_set(projects, project_name,
                                            new_project(project_name)),
                                   room_templates')
           /\ saved_snapshots' =
                  dict_set(saved_snapshots, project_name,
                           json_of_project(new_project(project_name),
                                           room_templates'))
    /\ pc' = "saved"
    /\ interactions' = interactions + 1
    /\ UNCHANGED <<counts, quality_multiplier, location_multiplier,
                   editor_widgets, template_run>>
    /\ InputsPageFrame

\* "Reset Inputs to defaults", run to its end: the template editor has run
\* before it, and every room's dict is replaced by a shallow copy of the
\* run's DEFAULT_ROOM_TEMPLATES[room], whose fixtures dict it shares.  The
\* editor's widgets keep their values.
ResetInputs ==
    /\ interactions < MaxInteractions
    /\ counts' = [room \in Rooms |-> 0]
    /\ room_templates' =
           [room \in DOMAIN room_templates |->
               IF room \in Rooms
               THEN builtin_after_editor(interactions + 1, template_run,
                                         editor_widgets)[room]
               ELSE written_templates(room_templates, editor_widgets)[room]]
    /\ builtin_templates' =
           builtin_after_editor(interactions + 1, template_run,
                                editor_widgets)
    /\ template_run' = [room \in Rooms |-> interactions + 1]
    /\ quality_multiplier' = QualScale
    /\ location_multiplier' = LocScale
    /\ pc' = "reset"
    /\ interactions' = interactions + 1
    /\ UNCHANGED <<projects, projects_file, saved_snapshots, editor_widgets>>
    /\ InputsPageFrame

\* "Reset Inputs to defaults", stopped at its first assignment: the key
\* cnt_<room> belongs to a number_input created earlier in the same run,
\* and Streamlit raises on an assignment to the key of such a widget.
\* The template editor has run before it.
ResetInputsRejected ==
    /\ interactions < MaxInteractions
    /\ TemplateEditor(editor_widgets)
    /\ pc' = "reset rejected"
    /\ interactions' = interactions + 1
    /\ UNCHANGED <<counts, quality_multiplier, location_multiplier, projects,
                   projects_file, saved_snapshots, editor_widgets,
                   template_run>>
    /\ InputsPageFrame

\* "Delete project" for the project selected under Saved Projects
DeleteProject ==
    /\ interactions < MaxInteractions
    /\ TemplateEditor(editor_widgets)
    /\ \E sel \in DOMAIN projects :
           /\ projects' = dict_del(projects, sel)
           /\ projects_file' = save_projects_db(dict_del(projects, sel),
                                                room_templates')
           /\ saved_snapshots' = dict_del(saved_snapshots, sel)
    /\ pc' = "deleted"
    /\ interactions' = interactions + 1
    /\ UNCHANGED <<counts, quality_multiplier, location_multiplier,
                   editor_widgets, template_run>>
    /\ InputsPageFrame

\* the Projection page run for a selection: the counts and multipliers are
\* the project's (or the session's), the templates are the session's.  The
\* template editor's widgets are not created on this page: they lose their
\* values and are created from the templates on the next Inputs page.
RunProjection ==
    /\ interactions < MaxInteractions
    /\ \E sel \in {"(Use current session inputs)"} \cup DOMAIN projects :
           /\ sel_proj' = sel
           /\ boq' = IF sel # "(Use current session inputs)"
                     THEN build_boq(projects[sel].counts, room_templates,
                                    materials_df,
                                    projects[sel].quality_multiplier,
                                    projects[sel].location_multiplier)
                     ELSE build_boq(counts, room_templates, materials_df,
                                    quality_multiplier, location_multiplier)
    /\ editor_widgets' = room_templates
    /\ builtin_templates' = DEFAULT_ROOM_TEMPLATES
    /\ pc' = "projected"
    /\ interactions' = interactions + 1
    /\ UNCHANGED <<materials_df, materials_file, key, matched, phase_totals,
                   summary, room_templates, counts, quality_multiplier,
                   location_multiplier, projects, projects_file,
                   saved_snapshots, template_run>>
    /\ UNCHANGED afford_vars
    /\ UNCHANGED nav_vars

NextSession ==
    \/ EditArea
    \/ EditFixture
    \/ SaveProject
    \/ ResetInputs
    \/ ResetInputsRejected
    \/ DeleteProject
    \/ RunProjection

SpecSession == InitSession /\ [][NextSession]_vars

---------------------------------------------------------------------------
(* Navigation between the Inputs, Projection and Affordability pages, and  *)
(* the cached last projection.  Every action is one interaction of the     *)
(* user and the script runs it causes, up to the end of the last run.      *)
(* counts is the session's counts as the Projection page obtains them      *)
(* (unsaved_counts, or the cnt_ values).                                   *)

\* the pages of the sidebar radio that are modelled
Pages == {"Inputs", "Projection", "Affordability"}

\* proj_choices
proj_choices == {"(Use current session inputs)"} \cup DOMAIN projects

\* counts, quality_multiplier and location_multiplier of the selection
selected_counts(sel) ==
    IF sel # "(Use current session inputs)" THEN projects[sel].counts
    ELSE counts
selected_qmult(sel) ==
    IF sel # "(Use current session inputs)"
    THEN projects[sel].quality_multiplier
    ELSE quality_multiplier
selected_lmult(sel) ==
    IF sel # "(Use current session inputs)"
    THEN projects[sel].location_multiplier
    ELSE location_multiplier

\* the positions the three sliders are created at
SliderDefaults == <<10, 6, 10>>

\* boq.to_dict(orient="records"): one dict per row, keyed by column
to_dict_records(rows) ==
    [i \in 1..Len(rows) |-> [col \in DOMAIN rows[i] |-> rows[i][col]]]

\* pd.DataFrame(records)
DataFrame(records) ==
    [i \in 1..Len(records) |->
        [col \in DOMAIN records[i] |-> records[i][col]]]

\* "Auto-run or manual run" to the end of the Projection page, for the
\* selection sel, with projection_ran holding ran and the "Run Projection
\* (now)" button pressed or not
AutoOrManualRun(sel, ran, now_pressed) ==
    /\ boq' = IF ran \/ now_pressed
              THEN build_boq(selected_counts(sel), room_templates,
                             materials_df, selected_qmult(sel),
                             selected_lmult(sel))
              ELSE boq
    /\ IF (ran \/ now_pressed) /\ boq' # <<>>
       THEN /\ phase_totals' = group_phase_totals(boq')
            /\ summary' = rollup(boq', SliderDefaults[1], SliderDefaults[2],
                                 SliderDefaults[3])
            /\ last_projection_boq' = stored(to_dict_records(boq'))
            /\ projection_ran' = FALSE
       ELSE /\ projection_ran' = ran
            /\ UNCHANGED <<phase_totals, summary, last_projection_boq>>

\* the Affordability page down to boq_df
AffordabilityPage ==
    IF last_projection_boq.present
    THEN /\ info' = "Using last projection BOQ from Projection page."
         /\ boq_df' = DataFrame(last_projection_boq.val)
    ELSE /\ info' = "Run projection first (Projection page)."
         /\ boq_df' = <<>>

\* what no interaction of these pages touches
NavigationFrame ==
    /\ UNCHANGED <<materials_df, room_templates, quality_multiplier,
                   location_multiplier, key, matched>>
    /\ UNCHANGED <<projects, projects_file, materials_file, saved_snapshots>>
    /\ UNCHANGED afford_vars
    /\ UNCHANGED editor_vars

\* the projects file of the session
NavigationFiles ==
    {file_absent,
     json_file(("Plan A" :> stored_project("Plan A",
                   [room \in Rooms |-> 1], DEFAULT_ROOM_TEMPLATES, 4, 10))
               @@ ("Plan B" :> stored_project("Plan B",
                   [room \in Rooms |-> IF room = "Living Room" THEN 1 ELSE 0],
                   DEFAULT_ROOM_TEMPLATES, 5, 9)))}

\* the catalog of the session: two rows, or emptied in the Materials DB
\* editor
NavigationCatalogs == {<<row_cement, row_light_fixture>>, <<>>}

\* counts the session can hold: none entered, or those of SessionCounts
NavigationCounts == {[room \in Rooms |-> 0]} \cup SessionCounts

InitNavigation ==
    /\ pc = "inputs"
    /\ materials_file = file_absent
    /\ materials_df \in NavigationCatalogs
    /\ projects_file \in NavigationFiles
    /\ projects = load_projects_db(projects_file)
    /\ saved_snapshots = deep_store(load_projects_db(projects_file),
                                    DEFAULT_ROOM_TEMPLATES)
    /\ sel_proj = "(Use current session inputs)"
    /\ interactions = 0
    /\ room_templates = DEFAULT_ROOM_TEMPLATES
    /\ counts = [room \in Rooms |-> 0]
    /\ quality_multiplier = QualScale
    /\ location_multiplier = LocScale
    /\ key = None
    /\ matched = None
    /\ boq = <<>>
    /\ phase_totals = <<>>
    /\ summary = no_summary
    /\ AffordabilityNotOpened
    /\ NotNavigating
    /\ EditorAtTemplates

\* the room counts are entered on the Inputs page
EnterCounts ==
    /\ interactions < MaxInteractions
    /\ page = "Inputs"
    /\ \E cnts \in NavigationCounts :
           /\ cnts # counts
           /\ counts' = cnts
    /\ pc' = "counts entered"
    /\ interactions' = interactions + 1
    /\ UNCHANGED <<boq, phase_totals, summary, sel_proj>>
    /\ UNCHANGED nav_vars
    /\ NavigationFrame

\* another page is picked in the sidebar radio
GoTo ==
    /\ interactions < MaxInteractions
    /\ \E p \in Pages \ {page} :
           /\ page' = p
           /\ IF p = "Projection"
              THEN AutoOrManualRun("(Use current session inputs)",
                                   projection_ran, FALSE)
              ELSE UNCHANGED <<boq, phase_totals, summary,
                               last_projection_boq, projection_ran>>
           /\ IF p = "Affordability"
              THEN AffordabilityPage
              ELSE UNCHANGED <<boq_df, info>>
    /\ sel_proj' = "(Use current session inputs)"
    /\ pc' = "navigated"
    /\ interactions' = interactions + 1
    /\ UNCHANGED <<counts, go_to_affordability, last_projection_counts,
                   last_projection_qmult, last_projection_lmult>>
    /\ NavigationFrame

\* another entry is picked in "Project to project"
SelectProject ==
    /\ interactions < MaxInteractions
    /\ page = "Projection"
    /\ \E sel \in proj_choices \ {sel_proj} :
           /\ sel_proj' = sel
           /\ AutoOrManualRun(sel, projection_ran, FALSE)
    /\ pc' = "selected"
    /\ interactions' = interactions + 1
    /\ UNCHANGED <<counts, page, go_to_affordability, last_projection_counts,
                   last_projection_qmult, last_projection_lmult, boq_df,
                   info>>
    /\ NavigationFrame

\* "Run Projection (generate BOQ)": the selection is recorded,
\* projection_ran is set, and the rerun builds the BOQ
PressRunProjection ==
    /\ interactions < MaxInteractions
    /\ page = "Projection"
    /\ last_projection_counts' = stored(selected_counts(sel_proj))
    /\ last_projection_qmult' = stored(selected_qmult(sel_proj))
    /\ last_projection_lmult' = stored(selected_lmult(sel_proj))
    /\ AutoOrManualRun(sel_proj, TRUE, FALSE)
    /\ pc' = "run pressed"
    /\ interactions' = interactions + 1
    /\ UNCHANGED <<counts, sel_proj, page, go_to_affordability, boq_df, info>>
    /\ NavigationFrame

\* "Quick run and go to Affordability": the selection is recorded, both
\* flags are set, and the rerun moves to the Affordability page, so the
\* Projection page is not run
PressQuickRun ==
    /\ interactions < MaxInteractions
    /\ page = "Projection"
    /\ last_projection_counts' = stored(selected_counts(sel_proj))
    /\ last_projection_qmult' = stored(selected_qmult(sel_proj))
    /\ last_projection_lmult' = stored(selected_lmult(sel_proj))
    /\ projection_ran' = TRUE
    /\ page' = "Affordability"
    /\ go_to_affordability' = FALSE
    /\ AffordabilityPage
    /\ sel_proj' = "(Use current session inputs)"
    /\ pc' = "quick run pressed"
    /\ interactions' = interactions + 1
    /\ UNCHANGED <<counts, boq, phase_totals, summary, last_projection_boq>>
    /\ NavigationFrame

\* "Run Projection (now)": the BOQ is built in the same run
PressRunNow ==
    /\ interactions < MaxInteractions
    /\ page = "Projection"
    /\ AutoOrManualRun(sel_proj, projection_ran, TRUE)
    /\ pc' = "run now pressed"
    /\ interactions' = interactions + 1
    /\ UNCHANGED <<counts, sel_proj, page, go_to_affordability,
                   last_projection_counts, last_projection_qmult,
                   last_projection_lmult, boq_df, info>>
    /\ NavigationFrame

NextNavigation ==
    \/ EnterCounts
    \/ GoTo
    \/ SelectProject
    \/ PressRunProjection
    \/ PressQuickRun
    \/ PressRunNow

SpecNavigation == InitNavigation /\ [][NextNavigation]_vars

---------------------------------------------------------------------------
(* Properties.                                                             *)

Max0(n) == IF n > 0 THEN n ELSE 0

RECURSIVE SeqSum(_)
SeqSum(q) == IF q = <<>> THEN 0 ELSE Head(q) + SeqSum(Tail(q))

CostColumn(rows) == [i \in 1..Len(rows) |-> rows[i].total_cost]

FirstIndex(rows, ph) ==
    CHOOSE i \in 1..Len(rows) :
        /\ rows[i].phase = ph
        /\ \A j \in 1..(i - 1) : rows[j].phase # ph

CatalogItems == item_list(materials_df)

\* the catalog items whose name equals name `n` case-insensitively
SameNameItems(n, items) ==
    {items[i] : i \in {j \in 1..Len(items) : lower(items[j]) = lower(n)}}

\* the strict priority rule of the resolver, for label k and result r
PriorityRule(k, items, r) ==
    LET aliased == IF k \in DOMAIN FIXTURE_ITEM_MAP
                   THEN SameNameItems(FIXTURE_ITEM_MAP[k], items) ELSE {}
        exact == SameNameItems(k, items)
        holding == {i \in 1..Len(items) : str_in(lower(k), lower(items[i]))}
    IN IF aliased # {} THEN r \in aliased
       ELSE IF exact # {} THEN r \in exact
       ELSE IF holding # {}
       THEN r = items[CHOOSE i \in holding : \A j \in holding : i <= j]
       ELSE r = None

\* C1: find_match returns what the strict priority rule gives: the catalog
\* item equal to the label's alias case-insensitively, else the one equal
\* to the label case-insensitively, else the first catalog item, in catalog
\* order, whose lower-cased name contains the lower-cased label, else none.
C1_FindMatchPriorityRule ==
    pc = "matched" => PriorityRule(key, CatalogItems, matched)

NoFixturesConfigured(templates) ==
    \A room \in DOMAIN templates :
        \A f \in DOMAIN templates[room].fixtures :
            templates[room].fixtures[f] = 0

\* C2: build_boq returns an empty BOQ exactly when the room counts are all
\* zero and no fixtures are configured in the templates, whatever the
\* materials catalog holds.
C2_EmptyIffNoRoomsAndNoFixtures ==
    pc = "built" =>
        (boq = <<>> <=> ((\A room \in DOMAIN counts : counts[room] = 0)
                         /\ NoFixturesConfigured(room_templates)))

\* C3: the BOQ build_boq returns is the BOQ it returns when every negative
\* count is replaced by 0.
C3_NegativeCountsContributeNothing ==
    pc = "built" =>
        boq = build_boq([room \in DOMAIN counts |-> Max0(counts[room])],
                        room_templates, materials_df, quality_multiplier,
                        location_multiplier)

\* a price cell with what is negative or non-numeric replaced by 0
CoercedPrice(cell) == IF cell.kind = "num" /\ cell.val >= 0 THEN cell.val ELSE 0

FirstRowOf(name) ==
    materials_df[CHOOSE i \in 1..Len(materials_df) :
                     /\ materials_df[i].item = name
                     /\ \A j \in 1..(i - 1) : materials_df[j].item # name]

\* C4: a catalog price that is negative or non-numeric is replaced by 0
\* before the location multiplier is applied, and with non-negative
\* multipliers and non-negative counts no BOQ row has a negative unit_price,
\* total_qty or total_cost.
C4_NoNegativeRow ==
    pc = "built" =>
        /\ \A i \in 1..Len(boq) :
               (\E j \in 1..Len(materials_df) :
                    materials_df[j].item = boq[i].item)
               => boq[i].unit_price
                  = CoercedPrice(FirstRowOf(boq[i].item).price)
                    * location_multiplier
        /\ (/\ quality_multiplier >= 0
            /\ location_multiplier >= 0
            /\ \A room \in DOMAIN counts : counts[room] >= 0)
           => \A i \in 1..Len(boq) :
                  /\ boq[i].unit_price >= 0
                  /\ boq[i].total_qty >= 0
                  /\ boq[i].total_cost >= 0

\* the quantity all rooms carrying label fk ask for, in 1/QtyScale; a count
\* or a quantity that is not positive contributes nothing
LabelDemand(fk) ==
    QtyScale * sum_over(
        [room \in DOMAIN counts |->
            IF fk \in DOMAIN template_fixtures(room_templates, room)
            THEN Max0(template_fixtures(room_templates, room)[fk])
                 * Max0(counts[room])
            ELSE 0],
        DOMAIN counts)

\* C5: a fixture of positive quantity, in a room of positive count, that
\* find_match cannot resolve has exactly one BOQ row: item "<label> (user)",
\* unit "each", unit_price 0, phase "Misc", total_cost 0 and total_qty the
\* sum over the rooms carrying the label of quantity times count.
C5_UnmatchedFixturePlaceholderRow ==
    pc = "built" =>
        \A room \in DOMAIN counts :
            \A fk \in DOMAIN template_fixtures(room_templates, room) :
                (/\ counts[room] > 0
                 /\ template_fixtures(room_templates, room)[fk] > 0
                 /\ find_match(fk, CatalogItems) = None)
                => /\ Cardinality({i \in 1..Len(boq) :
                                      boq[i].item = fk \o s_user_suffix}) = 1
                   /\ \A i \in 1..Len(boq) :
                          boq[i].item = fk \o s_user_suffix
                          => /\ boq[i].unit = "each"
                             /\ boq[i].unit_price = 0
                             /\ boq[i].phase = "Misc"
                             /\ boq[i].total_cost = 0
                             /\ boq[i].total_qty = LabelDemand(fk)

\* C5 witness: both rooms carrying "Window (each)" are counted (two living
\* rooms of 3 windows, one dining room of 2), no catalog item resolves the
\* label, and the placeholder row holds the 8 windows.
C5_Witness ==
    /\ pc = "built"
    /\ counts["Living Room"] = 2
    /\ counts["Dining Room"] = 1
    /\ room_templates = DEFAULT_ROOM_TEMPLATES
    /\ find_match(s_Window_each, CatalogItems) = None
    /\ \E i \in 1..Len(boq) :
           /\ boq[i].item = s_Window_each \o s_user_suffix
           /\ boq[i].total_qty = (2 * 3 + 1 * 2) * QtyScale

\* C6: every BOQ row has total_cost = total_qty * unit_price and no two
\* rows share (item, unit, unit_price, phase).
C6_RowCostAndDistinctKeys ==
    pc \in {"built", "rolled"} =>
        /\ \A i \in 1..Len(boq) :
               boq[i].total_cost = boq[i].total_qty * boq[i].unit_price
        /\ \A i, j \in 1..Len(boq) :
               row_key(boq[i]) = row_key(boq[j]) => i = j

\* C6 witness: the catalog lists one item twice with different prices,
\* fixtures were added to it, and two rooms share an unmatched label.
C6_Witness ==
    /\ pc = "built"
    /\ Len(materials_df) = 2
    /\ materials_df[1].item = materials_df[2].item
    /\ materials_df[1].price # materials_df[2].price
    /\ counts["Living Room"] > 0
    /\ counts["Dining Room"] > 0
    /\ room_templates = DEFAULT_ROOM_TEMPLATES
    /\ \E i \in 1..Len(boq) :
           /\ boq[i].item = materials_df[1].item
           /\ boq[i].total_qty > 0
           /\ boq[i].total_cost # 0
    /\ \E i \in 1..Len(boq) :
           /\ boq[i].item = s_Window_each \o s_user_suffix
           /\ boq[i].total_qty > QtyScale

\* the rows of two builds, concatenated and aggregated again
Reaggregate(rows) == IF rows = <<>> THEN <<>> ELSE groupby_agg(rows)

\* the ways to split the counts into two non-negative shares
Shares == {c \in [DOMAIN counts -> 0..MaxCount] :
              \A room \in DOMAIN counts : c[room] <= counts[room]}

\* C7: for non-negative counts, the rows of a build with one share of the
\* counts and of a build with the other share, concatenated and aggregated
\* again by (item, unit, unit_price, phase), are the rows of one build with
\* the whole counts.
C7_AdditiveInCounts ==
    (pc = "built" /\ \A room \in DOMAIN counts : counts[room] >= 0)
    => \A c \in Shares :
           Reaggregate(
               build_boq(c, room_templates, materials_df,
                         quality_multiplier, location_multiplier)
               \o build_boq([room \in DOMAIN counts |-> counts[room] - c[room]],
                            room_templates, materials_df,
                            quality_multiplier, location_multiplier))
           = boq

\* C7 witness: two living rooms (which split into 1 + 1) whose doors and
\* whose area both reach the BOQ.
C7_Witness ==
    /\ pc = "built"
    /\ counts["Living Room"] = 2
    /\ counts["Dining Room"] = 0
    /\ room_templates = DEFAULT_ROOM_TEMPLATES
    /\ \E i \in 1..Len(boq) :
           /\ boq[i].item = s_Cement_50kg_bag
           /\ boq[i].total_qty > 0
    /\ \E i \in 1..Len(boq) :
           /\ boq[i].item = s_Internal_door_each
           /\ boq[i].total_qty = 2 * QtyScale

Doubled == [room \in DOMAIN counts |-> 2 * counts[room]]

\* C8: doubling every room count doubles total_area and doubles the
\* area-driven quantity seeded for every catalog item.
C8_AreaLinearInCounts ==
    pc = "built" =>
        LET mat == scaled_mat(materials_df, quality_multiplier,
                              location_multiplier)
        IN /\ total_area(Doubled, room_templates)
              = 2 * total_area(counts, room_templates)
           /\ \A i \in 1..Len(mat) :
                  seed_qty(mat, mat[i].item,
                           total_area(Doubled, room_templates))
                  = 2 * seed_qty(mat, mat[i].item,
                                 total_area(counts, room_templates))

\* C8 witness: one living room and one dining room (32 m2, 64 m2 when
\* doubled) and cement seeded with 0.4 * 1.0 * 32 bags.
C8_Witness ==
    /\ pc = "built"
    /\ total_area(counts, room_templates) = 32
    /\ total_area(Doubled, room_templates) = 64
    /\ \E i \in 1..Len(boq) :
           /\ boq[i].item = s_Cement_50kg_bag
           /\ boq[i].total_qty = 4 * QualScale * 32

\* C9: base_total is the sum of the rows' total_cost and grand_total
\* exceeds it by base_total * (margin + fee + contingency): the three
\* percentages add, they do not compound.
C9_RollupAdditive ==
    pc = "rolled" =>
        /\ summary.base_total = SeqSum(CostColumn(boq))
        /\ summary.grand_total - PctScale * summary.base_total
           = summary.base_total * (summary.extra_margin_pct
                                   + summary.professional_fees_pct
                                   + summary.contingency_pct)

\* C9 witness: a base total of 1000 with 10 %, 6 % and 10 % gives 1260.
C9_Witness ==
    /\ pc = "rolled"
    /\ summary.base_total = 1000 * CostScale
    /\ summary.extra_margin_pct = 10
    /\ summary.professional_fees_pct = 6
    /\ summary.contingency_pct = 10
    /\ summary.grand_total = 1260 * CostScale * PctScale

PhaseRows(ph) == SelectSeq(boq, LAMBDA r : r.phase = ph)

\* C10: the phase totals hold one entry per distinct phase of the BOQ, each
\* the sum of total_cost over the rows of its phase, in the order in which
\* the phases first appear in the BOQ rows, and they sum to base_total.
C10_PhaseTotalsGroupSum ==
    pc = "rolled" =>
        /\ \A a, b \in 1..Len(phase_totals) :
               phase_totals[a].phase = phase_totals[b].phase => a = b
        /\ {phase_totals[a].phase : a \in 1..Len(phase_totals)}
           = {boq[i].phase : i \in 1..Len(boq)}
        /\ \A a \in 1..Len(phase_totals) :
               phase_totals[a].phase_cost
               = SeqSum(CostColumn(PhaseRows(phase_totals[a].phase)))
        /\ \A a, b \in 1..Len(phase_totals) :
               a < b => FirstIndex(boq, phase_totals[a].phase)
                        < FirstIndex(boq, phase_totals[b].phase)
        /\ SeqSum([a \in 1..Len(phase_totals) |-> phase_totals[a].phase_cost])
           = summary.base_total

\* C10 witness: the BOQ's phases run Foundation, Misc, Finishing, Misc, so
\* the Misc rows are apart and first-seen order is not alphabetical.
C10_Witness ==
    /\ pc = "rolled"
    /\ Len(boq) = 4
    /\ [i \in 1..4 |-> boq[i].phase]
       = <<"Foundation", "Misc", "Finishing", "Misc">>
    /\ [a \in 1..Len(phase_totals) |-> phase_totals[a].phase]
       = <<"Foundation", "Misc", "Finishing">>
    /\ phase_totals[1].phase_cost > 0
    /\ phase_totals[3].phase_cost > 0


---------------------------------------------------------------------------
(* Properties of the Affordability schedule.                               *)

ScheduleDone == pc \in {"completion", "unfundable"}

\* C11: the funding schedule has one entry per phase of the build order, in
\* that order; the first entry starts at month 0, every entry ends at its
\* start plus its months needed, and every later entry starts where the
\* entry before it ends.
C11_ScheduleIsChain ==
    /\ Len(results) <= Len(phase_order)
    /\ ScheduleDone => Len(results) = Len(phase_order)
    /\ \A i \in 1..Len(results) :
           /\ results[i].phase = phase_order[i]
           /\ results[i].end = float_add(results[i].start, results[i].months)
           /\ i = 1 => results[i].start = fin(0)
           /\ i > 1 => results[i].start = results[i - 1].end

C11_Witness ==
    /\ ScheduleDone
    /\ Len(results) = 2
    /\ isfinite(results[2].start) /\ results[2].start.v > 0
    /\ isfinite(results[2].months) /\ results[2].months.v > 0

\* the upfront cash phase i takes, by the rule applied = min(remaining, base)
AppliedByRule(i) == min(upfront_trace[i], results[i].base)

\* C12: for each phase applied = min(remaining_upfront, base_cost) and
\* cost_after_upfront = base_cost - applied; remaining_upfront never
\* increases from one phase to the next and never drops below 0; a phase
\* receives upfront cash only if every earlier phase has
\* cost_after_upfront = 0.
C12_UpfrontConsumedInOrder ==
    \A i \in 1..Len(results) :
        /\ results[i].after_upfront = results[i].base - AppliedByRule(i)
        /\ upfront_trace[i + 1] = upfront_trace[i] - AppliedByRule(i)
        /\ upfront_trace[i + 1] <= upfront_trace[i]
        /\ upfront_trace[i + 1] >= 0
        /\ upfront_trace[i + 1] # upfront_trace[i]
              => \A j \in 1..(i - 1) : results[j].after_upfront = 0

RECURSIVE SumBase(_)
SumBase(res) == IF res = <<>> THEN 0 ELSE res[1].base + SumBase(Tail(res))

\* C13: if the upfront cash is at least the sum of the phase base costs,
\* every entry has months needed 0, and start and end month 0, whatever the
\* monthly savings (0 included) and the inflation rate.
C13_FullyFundedNeedsNoMonths ==
    (ScheduleDone /\ one_time >= SumBase(results))
        => \A i \in 1..Len(results) :
               /\ results[i].months = fin(0)
               /\ results[i].start = fin(0)
               /\ results[i].end = fin(0)

\* C14: start and end months are non-negative and non-decreasing along the
\* build order; with monthly savings 0, a phase with positive cost after
\* upfront has infinite months needed and end month, and every later phase
\* has infinite start and end; the end month of the last phase is the
\* largest end month.
C14_MonthsMonotoneInfinityAbsorbing ==
    ScheduleDone =>
        /\ \A i \in 1..Len(results) :
               /\ float_le(fin(0), results[i].start)
               /\ float_le(fin(0), results[i].end)
               /\ i > 1 => /\ float_le(results[i - 1].start, results[i].start)
                           /\ float_le(results[i - 1].end, results[i].end)
               /\ (monthly_savings = 0 /\ results[i].after_upfront > 0)
                     => /\ results[i].months = float_inf
                        /\ results[i].end = float_inf
                        /\ \A j \in (i + 1)..Len(results) :
                               /\ results[j].start = float_inf
                               /\ results[j].end = float_inf
        /\ final_months = max_end(results)

\* month n - 1 of the curve is funded: available(m) >= required(m)
Funded(n) == curve[n].CumulativeSavings >= curve[n].CumulativeRequired

\* the smallest month of the curve that is funded is month m
SmallestFundedMonthIs(m) ==
    \E n \in 1..Len(curve) :
        /\ curve[n].Month = m
        /\ Funded(n)
        /\ \A k \in 1..(n - 1) : ~Funded(k)

\* C15 as stated: when the last phase's end month is finite, the smallest
\* integer month m with available(m) >= required(m) is that end month.
C15_CompletionIsSmallestFundedMonth ==
    pc = "completion"
        => \E m \in 0..(Len(curve) - 1) :
               /\ SmallestFundedMonthIs(m)
               /\ final_months = fin(m * MonthScale)

\* C15, amended: month 0 is funded (available(0) is the upfront cash and
\* required(0) is at most 0), so the smallest integer month m with
\* available(m) >= required(m) is 0, and it is the last phase's end month
\* only when that is 0; the completion month reported is the end month of
\* the last phase.
C15_MonthZeroIsFunded ==
    ScheduleDone
        => /\ curve[1].Month = 0
           /\ curve[1].CumulativeSavings = one_time
           /\ curve[1].CumulativeRequired <= 0
           /\ SmallestFundedMonthIs(0)
           /\ final_months = results[Len(results)].end
           /\ pc = "completion" <=> isfinite(final_months)

C15_Witness ==
    /\ pc = "completion"
    /\ final_months = fin(3 * MonthScale)
    /\ SmallestFundedMonthIs(0)
    /\ Len(curve) = 4
    /\ curve[4].CumulativeRequired = 1200

\* C16: the first phase, every phase starting at month 0 and every phase
\* preceded only by phases the upfront cash covers in full have
\* inflated cost = cost after upfront, whatever the inflation rate; with
\* inflation 0 every phase has; one phase of 1200 after upfront with
\* savings 400 and inflation 0 needs 3 months and ends at month 3.
C16_InflationAnchoredToStart ==
    \A i \in 1..Len(results) :
        /\ ( \/ i = 1
             \/ results[i].start = fin(0)
             \/ \A j \in 1..(i - 1) : results[j].after_upfront = 0
             \/ inflation_pct = 0 )
              => results[i].inflated = fin(results[i].after_upfront)
        /\ ( /\ Len(phase_order) = 1
             /\ results[i].after_upfront = 1200
             /\ monthly_savings = 400
             /\ inflation_pct = 0 )
              => /\ results[i].months = fin(3 * MonthScale)
                 /\ results[i].end = fin(3 * MonthScale)

---------------------------------------------------------------------------
(* Properties of the project store and of the store files.                 *)

\* the projects file as load_projects_db reads it now, by value
OnDisk == deep_store(load_projects_db(projects_file), room_templates)

\* C17: a saved project changes only by a save under its name or a delete:
\* whatever template edits and resets follow, the store (the session's
\* projects and projects_db.json) holds, under each saved name and no
\* other, the room templates, counts and multipliers of that save.
C17_SnapshotImmutable ==
    /\ DOMAIN projects = DOMAIN saved_snapshots
    /\ \A n \in DOMAIN projects :
           json_of_project(projects[n], room_templates) = saved_snapshots[n]
    /\ projects_file.kind = "json"
          => /\ DOMAIN OnDisk = DOMAIN saved_snapshots
             /\ \A n \in DOMAIN OnDisk : OnDisk[n] = saved_snapshots[n]

\* C18: the BOQ projected for a selected saved project is the BOQ of its
\* snapshot: its counts, its multipliers and the room templates saved with
\* it.
C18_ProjectionFromSnapshotAlone ==
    (pc = "projected" /\ sel_proj \in DOMAIN saved_snapshots)
        => boq = build_boq(saved_snapshots[sel_proj].counts,
                           saved_snapshots[sel_proj].room_templates,
                           materials_df,
                           saved_snapshots[sel_proj].quality_multiplier,
                           saved_snapshots[sel_proj].location_multiplier)

\* the materials file holds a table
HoldsTable(file) == file.kind = "json" /\ file.data.shape = "records"

\* C19: load_materials_db returns the default catalog when the file is
\* absent or is not a table, load_projects_db an empty store when the file
\* is absent or unreadable, and a table lacking a required column is loaded
\* with that column filled with 0.
C19_LoadFallsBack ==
    pc = "loaded" =>
        /\ ~HoldsTable(materials_file)
              => materials_df = default_materials_list
        /\ projects_file.kind # "json" => projects = empty_store
        /\ HoldsTable(materials_file)
              => /\ Len(materials_df) = Len(materials_file.data.rows)
                 /\ \A i \in 1..Len(materials_df) :
                      \A col \in MaterialsColumns :
                        IF col \in DOMAIN materials_file.data.rows[i]
                        THEN materials_df[i][col]
                             = materials_file.data.rows[i][col]
                        ELSE materials_df[i][col] = 0

C19_Witness ==
    /\ pc = "loaded"
    /\ HoldsTable(materials_file)
    /\ Len(materials_file.data.rows) = 2
    /\ DOMAIN materials_file.data.rows[1] = MaterialsColumns \ {"price"}
    /\ materials_df[2]["price"] = 0
    /\ materials_df[2]["phase"] = "Foundation"
    /\ projects_file.kind = "corrupt"
    /\ projects = empty_store

---------------------------------------------------------------------------
(* The cached last projection.                                             *)

\* the BOQ of the counts and multipliers recorded at the last press
BoqOfLastProjection ==
    build_boq(last_projection_counts.val, room_templates, materials_df,
              last_projection_qmult.val, last_projection_lmult.val)

\* C21: once "Quick run and go to Affordability" has been pressed, the
\* rerun shows the Affordability page, the page does not report "Run
\* projection first", and the BOQ it reads from last_projection_boq is the
\* BOQ of last_projection_counts, last_projection_qmult and
\* last_projection_lmult, the selection at the press.
C21_QuickRunSchedulesItsOwnBoq ==
    pc = "quick run pressed" =>
        /\ page = "Affordability"
        /\ info # "Run projection first (Projection page)."
        /\ last_projection_boq.present
        /\ boq_df = BoqOfLastProjection

---------------------------------------------------------------------------
(* Reset of the room templates.                                            *)

\* C22: after any template edits, a press of "Reset Inputs to defaults"
\* leaves the session's template of every default room type equal to its
\* built-in value (area_m2 and fixture quantities), and
\* DEFAULT_ROOM_TEMPLATES always holds its built-in values.
C22_ResetRestoresBuiltinTemplates ==
    /\ pc \in {"reset", "reset rejected"} =>
           \A room \in Rooms :
               room_templates[room] = DEFAULT_ROOM_TEMPLATES[room]
    /\ builtin_templates = DEFAULT_ROOM_TEMPLATES

=============================================================================
